---- MODULE Spec2Model ----
(* A model of the SCADA-LTS MCP adapter (scada_lts_mcp.py): the REST client  *)
(* ScadaLTSClient, the process-wide client reference scada_client, and the   *)
(* two dispatchers call_tool and get_prompt.  The handlers are coroutines:   *)
(* an invocation runs from one await to the next in one step, and between    *)
(* two of its steps the steps of other invocations may run.                  *)
(*                                                                           *)
(* Encodings.  A Python Optional is a sequence of length 0 (None) or 1.  A   *)
(* Python dict is a function on the set of its keys.  A JSON value is a      *)
(* record [form, items, obj].  A base_url string is the pair of its longest  *)
(* prefix that does not end in '/' (stem) and the number of '/' that follow  *)
(* it (slashes).  An exception is a record [type, msg] with msg = str(e).    *)
EXTENDS Integers, Sequences, FiniteSets, TLC

VARIABLES scada_client, invocations, sent, configured_by

vars == <<scada_client, invocations, sent, configured_by>>

-----------------------------------------------------------------------------
(* Bounds of the model.                                                      *)

MaxSources == 1

MaxPoints == 1

-----------------------------------------------------------------------------
(* Python values.                                                            *)

None == <<>>

Some(v) == <<v>>

\* dict.get(key, default)
Get(d, key, default) == IF key \in DOMAIN d THEN d[key] ELSE default

\* dict.get(key) as an Optional
GetOpt(d, key) == IF key \in DOMAIN d THEN Some(d[key]) ELSE None

\* truth value of an Optional[str]
TruthyStr(o) == o # None /\ o[1] # ""

\* truth value of an Optional[int]
TruthyInt(o) == o # None /\ o[1] # 0

NoDict == <<>>

JList(items) == [form |-> "list", items |-> items, obj |-> NoDict]

JObj(o) == [form |-> "object", items |-> <<>>, obj |-> o]

JNull == [form |-> "null", items |-> <<>>, obj |-> NoDict]

JTrue == [form |-> "true", items |-> <<>>, obj |-> NoDict]

JFalse == [form |-> "false", items |-> <<>>, obj |-> NoDict]

\* a response body that is not JSON: response.json() raises on it
NotJson == [form |-> "malformed", items |-> <<>>, obj |-> NoDict]

Exc(type, msg) == [type |-> type, msg |-> msg]

NoExc == Exc("", "")

KeyError(key) == Exc("KeyError", "'" \o key \o "'")

\* len(x) of a parsed JSON value: [exc, n]
PyLen(j) ==
    CASE j.form = "list" -> [exc |-> NoExc, n |-> Len(j.items)]
      [] j.form = "object" -> [exc |-> NoExc, n |-> Cardinality(DOMAIN j.obj)]
      [] j.form = "null" ->
            [exc |-> Exc("TypeError", "object of type 'NoneType' has no len()"),
             n |-> 0]
      [] OTHER ->
            [exc |-> Exc("TypeError", "object of type 'bool' has no len()"),
             n |-> 0]

\* iterating a parsed JSON value whose elements are then asked .get("id"):
\* the exception raised, if any
IterGetExc(j) ==
    CASE j.form = "list" -> NoExc
      [] j.form = "object" ->
            IF DOMAIN j.obj = {} THEN NoExc
            ELSE Exc("AttributeError", "'str' object has no attribute 'get'")
      [] j.form = "null" ->
            Exc("TypeError", "'NoneType' object is not iterable")
      [] OTHER -> Exc("TypeError", "'bool' object is not iterable")

\* the dicts a parsed JSON value yields when iterated without an exception
IterItems(j) == IF j.form = "list" THEN j.items ELSE <<>>

-----------------------------------------------------------------------------
(* The remote system: what an HTTP exchange can produce.                     *)

TransportError ==
    [transport |-> "error", status_code |-> 0, body |-> NotJson]

\* stands for the answer of an exchange whose request has been sent and whose
\* answer has not arrived: only the request of such an exchange is read
Unanswered == TransportError

Http(status, body) ==
    [transport |-> "ok", status_code |-> status, body |-> body]

\* client.get / client.post raised (connection failure, timeout)
SendRaises(resp) == resp.transport = "error"

\* response.json() raises
JsonRaises(resp) == resp.body.form = "malformed"

\* str(e) of the exception an exchange raised
ExcText(resp) ==
    IF SendRaises(resp) THEN "All connection attempts failed"
    ELSE "Expecting value: line 1 column 1 (char 0)"

BaseUrls == {[stem |-> "http://a", slashes |-> 0],
             [stem |-> "http://b", slashes |-> 1]}

Usernames == {"", "u"}

Passwords == {"", "p"}

Tokens == {"tok1", "tok2"}

DataSourceObjects == {[id |-> 1, name |-> "A"], [id |-> 2], [name |-> "B"]}

DataPointObjects == {[id |-> 1, name |-> "p1"], [id |-> 2], [id |-> 0],
                     [name |-> "p"]}

AlarmObjects == {[id |-> 5]}

RECURSIVE ListsUpTo(_, _)
ListsUpTo(S, n) ==
    IF n = 0 THEN {<<>>}
    ELSE LET shorter == ListsUpTo(S, n - 1)
         IN shorter \cup {Append(l, e) : l \in {s \in shorter : Len(s) = n - 1},
                                         e \in S}

Failures ==
    {TransportError, Http(500, JObj([error |-> "internal"])),
     Http(200, NotJson)}

ListResponses(S, n) ==
    Failures \cup {Http(200, JNull)}
             \cup {Http(200, JList(l)) : l \in ListsUpTo(S, n)}

LoginResponses ==
    Failures \cup {Http(200, JObj([token |-> t])) : t \in Tokens \cup {""}}
             \cup {Http(200, JObj([user |-> "u"]))}

ValueResponses ==
    {Http(404, JObj([error |-> "no such point"])),
     Http(200, JObj([value |-> 7]))}

ToolValueResponses == Failures \cup ValueResponses \cup {Http(200, JNull)}

PostResponses == {TransportError, Http(200, NotJson), Http(500, NotJson)}

StatusResponses ==
    Failures \cup {Http(503, NotJson), Http(200, JObj([status |-> "running"]))}

\* the answers the overview prompt is tried on
OverviewLists(S) ==
    {TransportError, Http(200, JNull)}
       \cup {Http(200, JList(<<e>>)) : e \in S}

\* what the remote system may answer to the request sent at the given await
ResponsesFor(at) ==
    CASE at = "login" -> LoginResponses
      [] at = "datasources" -> ListResponses(DataSourceObjects, 1)
      [] at = "datapoints" -> ListResponses(DataPointObjects, 1)
      [] at = "point-value" -> ToolValueResponses
      [] at = "alarms" -> ListResponses(AlarmObjects, 1)
      [] at = "status" -> StatusResponses
      [] at = "overview-datasources" -> OverviewLists({[id |-> 1, name |-> "A"]})
      [] at = "overview-datapoints" -> OverviewLists({[id |-> 1, name |-> "p1"]})
      [] at = "overview-status" ->
            {Http(503, NotJson), Http(200, JObj([status |-> "running"]))}
      [] at = "overview-alarms" -> OverviewLists(AlarmObjects)
      [] at = "analysis-datasources" ->
            ListResponses(DataSourceObjects, MaxSources)
      [] at = "analysis-datapoints" ->
            ListResponses(DataPointObjects, MaxPoints)
      [] at = "analysis-point-value" -> ValueResponses
      [] OTHER -> PostResponses

-----------------------------------------------------------------------------
(* ScadaLTSClient.                                                           *)

\* str.rstrip('/')
rstrip(base_url) == base_url.stem

RECURSIVE Slashes(_)
Slashes(n) == IF n = 0 THEN "" ELSE "/" \o Slashes(n - 1)

\* the text of a base_url
UrlText(base_url) == base_url.stem \o Slashes(base_url.slashes)

ScadaLTSClient(base_url, username, password) ==
    [base_url |-> rstrip(base_url),
     username |-> username,
     password |-> password,
     session_token |-> None]

NoJson == <<>>

Request(method, url, headers, json) ==
    [method |-> method, url |-> url, headers |-> headers, json |-> json]

NoHeaders == <<>>

\* _get_headers without the session token
get_headers_NoAuthorization(self) ==
    [h \in {"Content-Type"} |-> "application/json"]

_get_headers(self) ==
    IF TruthyStr(self.session_token)
    THEN [h \in {"Content-Type", "Authorization"} |->
            IF h = "Content-Type" THEN "application/json"
            ELSE "Bearer " \o self.session_token[1]]
    ELSE [h \in {"Content-Type"} |-> "application/json"]

\* NeedsLogin with "and" for "or": guest mode only when both are empty
NeedsLogin_BothEmpty(self) == ~(self.username = "" /\ self.password = "")

\* does authenticate() send a login request
NeedsLogin(self) == ~(self.username = "" \/ self.password = "")

\* authenticate(): the bool returned, the client afterwards, the requests sent
authenticate(self, resp) ==
    IF ~NeedsLogin(self)
    THEN [ok |-> TRUE, self |-> self, requests |-> <<>>]
    ELSE LET req == Request("POST", self.base_url \o "/api/auth/login",
                            NoHeaders,
                            [username |-> self.username,
                             password |-> self.password])
         IN IF SendRaises(resp)
            THEN [ok |-> FALSE, self |-> self, requests |-> <<req>>]
            ELSE IF resp.status_code = 200
            THEN IF JsonRaises(resp) \/ resp.body.form # "object"
                 THEN [ok |-> FALSE, self |-> self, requests |-> <<req>>]
                 ELSE [ok |-> TRUE,
                       self |-> [self EXCEPT !.session_token =
                                    GetOpt(resp.body.obj, "token")],
                       requests |-> <<req>>]
            ELSE [ok |-> FALSE, self |-> self, requests |-> <<req>>]

\* the outcome of one capability: the value returned, the requests sent,
\* and whether an exception left the method
Returned(method, value, req, resp) ==
    [method |-> method, value |-> value, requests |-> <<req>>,
     response |-> resp, raised |-> FALSE]

\* GetJson without the status check: any parseable body is returned
GetJson_NoStatusCheck(method, req, resp, sentinel) ==
    IF SendRaises(resp) \/ JsonRaises(resp)
    THEN Returned(method, sentinel, req, resp)
    ELSE Returned(method, resp.body, req, resp)

\* a GET that returns the parsed payload on 200 and the sentinel otherwise
GetJson(method, req, resp, sentinel) ==
    IF SendRaises(resp) THEN Returned(method, sentinel, req, resp)
    ELSE IF resp.status_code = 200
    THEN IF JsonRaises(resp) THEN Returned(method, sentinel, req, resp)
         ELSE Returned(method, resp.body, req, resp)
    ELSE Returned(method, sentinel, req, resp)

\* a POST that returns status_code == 200
PostOk(method, req, resp) ==
    IF SendRaises(resp) THEN Returned(method, JFalse, req, resp)
    ELSE Returned(method, IF resp.status_code = 200 THEN JTrue ELSE JFalse,
                  req, resp)

get_data_sources(self, resp) ==
    GetJson("get_data_sources",
            Request("GET", self.base_url \o "/api/datasources",
                    _get_headers(self), NoJson),
            resp, JList(<<>>))

get_data_points(self, data_source_id, resp) ==
    GetJson("get_data_points",
            Request("GET",
                    self.base_url \o "/api/datapoints" \o
                       (IF TruthyInt(data_source_id)
                        THEN "?dataSourceId=" \o ToString(data_source_id[1])
                        ELSE ""),
                    _get_headers(self), NoJson),
            resp, JList(<<>>))

get_point_value(self, point_id, resp) ==
    GetJson("get_point_value",
            Request("GET",
                    self.base_url \o "/api/point-values/" \o
                       ToString(point_id) \o "/latest",
                    _get_headers(self), NoJson),
            resp, JNull)

set_point_value(self, point_id, value, resp) ==
    PostOk("set_point_value",
           Request("POST",
                   self.base_url \o "/api/point-values/" \o
                      ToString(point_id) \o "/set",
                   _get_headers(self), [value |-> value]),
           resp)

get_alarms(self, active_only, resp) ==
    GetJson("get_alarms",
            Request("GET",
                    self.base_url \o "/api/alarms" \o
                       (IF active_only THEN "?active=true" ELSE ""),
                    _get_headers(self), NoJson),
            resp, JList(<<>>))

acknowledge_alarm(self, alarm_id, resp) ==
    PostOk("acknowledge_alarm",
           Request("POST",
                   self.base_url \o "/api/alarms/" \o ToString(alarm_id)
                      \o "/ack",
                   _get_headers(self), NoJson),
           resp)

get_system_status(self, resp) ==
    LET req == Request("GET", self.base_url \o "/api/system/status",
                       _get_headers(self), NoJson)
    IN IF SendRaises(resp)
       THEN Returned("get_system_status",
                     JObj([status |-> "error", error |-> ExcText(resp)]),
                     req, resp)
       ELSE IF resp.status_code = 200
       THEN IF JsonRaises(resp)
            THEN Returned("get_system_status",
                          JObj([status |-> "error", error |-> ExcText(resp)]),
                          req, resp)
            ELSE Returned("get_system_status", resp.body, req, resp)
       ELSE Returned("get_system_status",
                     JObj([status |-> "unknown",
                           error |-> "HTTP " \o ToString(resp.status_code)]),
                     req, resp)

-----------------------------------------------------------------------------
(* What a handler invocation produces.                                       *)

\* A text block handed back to the protocol layer.  text is the literal text
\* up to the first json.dumps(...) of the template, data the values the
\* template renders with json.dumps, in order, and point_values the mapping
\* rendered under "## Current Values".
TextResult(description, text, data, point_values) ==
    [outcome |-> "return", exception |-> NoExc, description |-> description,
     text |-> text, data |-> data, point_values |-> point_values]

\* an exception that leaves the handler
Raise(e) ==
    [outcome |-> "raise", exception |-> e, description |-> "", text |-> "",
     data |-> <<>>, point_values |-> <<>>]

NoResult ==
    [outcome |-> "", exception |-> NoExc, description |-> "", text |-> "",
     data |-> <<>>, point_values |-> <<>>]

RECURSIVE RequestsOf(_)
RequestsOf(calls) ==
    IF calls = <<>> THEN <<>>
    ELSE Head(calls).requests \o RequestsOf(Tail(calls))

\* a finished invocation: the client reference it leaves (call_tool) or read
\* at entry (get_prompt, which assigns none), the result, the requests sent
\* by authenticate(), and the capability calls made
Done(client, res, login_requests, calls) ==
    [awaiting |-> "", scada_client |-> client, result |-> res,
     requests |-> login_requests \o RequestsOf(calls), calls |-> calls]

\* an invocation suspended at an await for the answer of the given endpoint:
\* the client reference as the invocation has left it so far, the capability
\* calls that have returned, and the request whose answer is awaited
Await(endpoint, client, login_requests, calls, pending) ==
    [awaiting |-> endpoint, scada_client |-> client, result |-> NoResult,
     requests |-> login_requests \o RequestsOf(calls) \o pending,
     calls |-> calls]

\* the exception a capability lets escape
EscapedFrom(c) == Exc("Exception", ExcText(c.response))

-----------------------------------------------------------------------------
(* call_tool.                                                                *)

ToolAdvisory ==
    "SCADA-LTS client not configured. Please use configure_connection tool first."

ToolText(text, data) == TextResult("", text, data, <<>>)

\* call_tool without its except clause: the exception leaves the handler
ErrorText_Reraise(name, e) == Raise(e)

\* the except clause of call_tool
ErrorText(name, e) ==
    ToolText("Error executing " \o name \o ": " \o e.msg, <<>>)

\* configure_connection that updates the existing client in place and so
\* keeps its session token
Configure_KeepToken(client, name, arguments, resps) ==
    IF "base_url" \notin DOMAIN arguments
    THEN Done(client, ErrorText(name, KeyError("base_url")), <<>>, <<>>)
    ELSE LET fresh == ScadaLTSClient(arguments.base_url,
                                     Get(arguments, "username", ""),
                                     Get(arguments, "password", ""))
             new == IF client = None THEN fresh
                    ELSE [fresh EXCEPT !.session_token =
                                          client[1].session_token]
         IN IF NeedsLogin(new) /\ resps = <<>>
            THEN Await("login", Some(new),
                       authenticate(new, Unanswered).requests, <<>>, <<>>)
            ELSE LET auth == authenticate(new, IF resps = <<>>
                                               THEN Unanswered
                                               ELSE resps[1])
                 IN Done(Some(auth.self),
                         ToolText("Connection configured for "
                                    \o UrlText(arguments.base_url)
                                    \o ". Authentication: "
                                    \o (IF auth.ok THEN "successful"
                                        ELSE "failed or guest mode"),
                                  <<>>),
                         auth.requests, <<>>)

\* configure_connection that drops the existing client before it reads its
\* arguments
Configure_ResetFirst(client, name, arguments, resps) ==
    IF "base_url" \notin DOMAIN arguments
    THEN Done(None, ErrorText(name, KeyError("base_url")), <<>>, <<>>)
    ELSE LET new == ScadaLTSClient(arguments.base_url,
                                   Get(arguments, "username", ""),
                                   Get(arguments, "password", ""))
         IN IF NeedsLogin(new) /\ resps = <<>>
            THEN Await("login", Some(new),
                       authenticate(new, Unanswered).requests, <<>>, <<>>)
            ELSE LET auth == authenticate(new, IF resps = <<>>
                                               THEN Unanswered
                                               ELSE resps[1])
                 IN Done(Some(auth.self),
                         ToolText("Connection configured for "
                                    \o UrlText(arguments.base_url)
                                    \o ". Authentication: "
                                    \o (IF auth.ok THEN "successful"
                                        ELSE "failed or guest mode"),
                                  <<>>),
                         auth.requests, <<>>)

\* the configure_connection branch
Configure(client, name, arguments, resps) ==
    IF "base_url" \notin DOMAIN arguments
    THEN Done(client, ErrorText(name, KeyError("base_url")), <<>>, <<>>)
    ELSE LET new == ScadaLTSClient(arguments.base_url,
                                   Get(arguments, "username", ""),
                                   Get(arguments, "password", ""))
         IN IF NeedsLogin(new) /\ resps = <<>>
            THEN Await("login", Some(new),
                       authenticate(new, Unanswered).requests, <<>>, <<>>)
            ELSE LET auth == authenticate(new, IF resps = <<>>
                                               THEN Unanswered
                                               ELSE resps[1])
                 IN Done(Some(auth.self),
                         ToolText("Connection configured for "
                                    \o UrlText(arguments.base_url)
                                    \o ". Authentication: "
                                    \o (IF auth.ok THEN "successful"
                                        ELSE "failed or guest mode"),
                                  <<>>),
                         auth.requests, <<>>)

\* the branches that render a list: "Found {len(x)} ..." + json.dumps(x)
FoundText(client, name, c, what) ==
    LET n == PyLen(c.value)
    IN IF c.raised THEN Done(client, ErrorText(name, EscapedFrom(c)), <<>>, <<c>>)
       ELSE IF n.exc # NoExc THEN Done(client, ErrorText(name, n.exc), <<>>, <<c>>)
       ELSE Done(client,
                 ToolText("Found " \o ToString(n.n) \o " " \o what \o ":\n",
                          <<c.value>>),
                 <<>>, <<c>>)

\* the branches after the "client is configured" check
Dispatch(client, name, arguments, resps) ==
    LET self == client[1]
    IN CASE name = "get_data_sources" ->
              IF resps = <<>>
              THEN Await("datasources", client, <<>>, <<>>,
                         get_data_sources(self, Unanswered).requests)
              ELSE FoundText(client, name, get_data_sources(self, resps[1]),
                             "data sources")
         [] name = "get_data_points" ->
              LET data_source_id == GetOpt(arguments, "data_source_id")
              IN IF resps = <<>>
                 THEN Await("datapoints", client, <<>>, <<>>,
                            get_data_points(self, data_source_id,
                                            Unanswered).requests)
                 ELSE FoundText(client, name,
                                get_data_points(self, data_source_id, resps[1]),
                                "data points" \o
                                  (IF TruthyInt(data_source_id)
                                   THEN " for data source "
                                          \o ToString(data_source_id[1])
                                   ELSE ""))
         [] name = "get_point_value" ->
              IF "point_id" \notin DOMAIN arguments
              THEN Done(client, ErrorText(name, KeyError("point_id")),
                        <<>>, <<>>)
              ELSE IF resps = <<>>
              THEN Await("point-value", client, <<>>, <<>>,
                         get_point_value(self, arguments.point_id,
                                         Unanswered).requests)
              ELSE LET point_id == arguments.point_id
                       c == get_point_value(self, point_id, resps[1])
                   IN IF c.raised
                      THEN Done(client, ErrorText(name, EscapedFrom(c)),
                                <<>>, <<c>>)
                      ELSE IF c.value # JNull
                      THEN Done(client,
                                ToolText("Point " \o ToString(point_id)
                                           \o " value:\n", <<c.value>>),
                                <<>>, <<c>>)
                      ELSE Done(client,
                                ToolText("Could not retrieve value for point "
                                           \o ToString(point_id), <<>>),
                                <<>>, <<c>>)
         [] name = "set_point_value" ->
              IF "point_id" \notin DOMAIN arguments
              THEN Done(client, ErrorText(name, KeyError("point_id")),
                        <<>>, <<>>)
              ELSE IF "value" \notin DOMAIN arguments
              THEN Done(client, ErrorText(name, KeyError("value")), <<>>, <<>>)
              ELSE IF resps = <<>>
              THEN Await("set", client, <<>>, <<>>,
                         set_point_value(self, arguments.point_id,
                                         arguments.value, Unanswered).requests)
              ELSE LET point_id == arguments.point_id
                       value == arguments.value
                       c == set_point_value(self, point_id, value, resps[1])
                   IN IF c.raised
                      THEN Done(client, ErrorText(name, EscapedFrom(c)),
                                <<>>, <<c>>)
                      ELSE Done(client,
                                ToolText("Setting point " \o ToString(point_id)
                                           \o " to " \o ToString(value) \o ": "
                                           \o (IF c.value = JTrue
                                               THEN "successful" ELSE "failed"),
                                         <<>>),
                                <<>>, <<c>>)
         [] name = "get_alarms" ->
              LET active_only == Get(arguments, "active_only", TRUE)
              IN IF resps = <<>>
                 THEN Await("alarms", client, <<>>, <<>>,
                            get_alarms(self, active_only, Unanswered).requests)
                 ELSE FoundText(client, name,
                                get_alarms(self, active_only, resps[1]),
                                (IF active_only THEN "active" ELSE "all")
                                   \o " alarms")
         [] name = "acknowledge_alarm" ->
              IF "alarm_id" \notin DOMAIN arguments
              THEN Done(client, ErrorText(name, KeyError("alarm_id")),
                        <<>>, <<>>)
              ELSE IF resps = <<>>
              THEN Await("ack", client, <<>>, <<>>,
                         acknowledge_alarm(self, arguments.alarm_id,
                                           Unanswered).requests)
              ELSE LET alarm_id == arguments.alarm_id
                       c == acknowledge_alarm(self, alarm_id, resps[1])
                   IN IF c.raised
                      THEN Done(client, ErrorText(name, EscapedFrom(c)),
                                <<>>, <<c>>)
                      ELSE Done(client,
                                ToolText("Acknowledging alarm "
                                           \o ToString(alarm_id) \o ": "
                                           \o (IF c.value = JTrue
                                               THEN "successful" ELSE "failed"),
                                         <<>>),
                                <<>>, <<c>>)
         [] name = "get_system_status" ->
              IF resps = <<>>
              THEN Await("status", client, <<>>, <<>>,
                         get_system_status(self, Unanswered).requests)
              ELSE LET c == get_system_status(self, resps[1])
                   IN IF c.raised
                      THEN Done(client, ErrorText(name, EscapedFrom(c)),
                                <<>>, <<c>>)
                      ELSE Done(client, ToolText("System status:\n", <<c.value>>),
                                <<>>, <<c>>)
         [] OTHER ->
              Done(client, ToolText("Unknown tool: " \o name, <<>>), <<>>, <<>>)

CatalogTools ==
    {"get_data_sources", "get_data_points", "get_point_value",
     "set_point_value", "get_alarms", "acknowledge_alarm",
     "get_system_status", "configure_connection"}

\* call_tool that rejects an unknown name before it looks at the client
call_tool_UnknownBeforeConfigured(client, name, arguments, resps) ==
    IF name = "configure_connection"
    THEN Configure(client, name, arguments, resps)
    ELSE IF name \notin CatalogTools
    THEN Done(client, ToolText("Unknown tool: " \o name, <<>>), <<>>, <<>>)
    ELSE IF client = None
    THEN Done(client, ToolText(ToolAdvisory, <<>>), <<>>, <<>>)
    ELSE Dispatch(client, name, arguments, resps)

\* call_tool that raises on an unknown name, so that its except clause
\* reports it
call_tool_UnknownIsError(client, name, arguments, resps) ==
    IF name = "configure_connection"
    THEN Configure(client, name, arguments, resps)
    ELSE IF client = None
    THEN Done(client, ToolText(ToolAdvisory, <<>>), <<>>, <<>>)
    ELSE IF name \notin CatalogTools
    THEN Done(client, ErrorText(name, Exc("ValueError", "Unknown tool")),
              <<>>, <<>>)
    ELSE Dispatch(client, name, arguments, resps)

\* call_tool(name, arguments) as far as it has run: client is the reference
\* scada_client at entry, resps the answers that have arrived for the requests
\* it has sent, in order
call_tool(client, name, arguments, resps) ==
    IF name = "configure_connection"
    THEN Configure(client, name, arguments, resps)
    ELSE IF client = None
    THEN Done(client, ToolText(ToolAdvisory, <<>>), <<>>, <<>>)
    ELSE Dispatch(client, name, arguments, resps)

-----------------------------------------------------------------------------
(* get_prompt.  It names the global scada_client anew at every capability    *)
(* call, so its k-th request is sent by the client that scada_client refers  *)
(* to when the invocation gets there: clients[k].                            *)

PromptAdvisory ==
    "Please configure SCADA-LTS connection first using the configure_connection tool."

\* str.lower() on the values include_alarms takes in this model
Lower(s) == IF s \in {"True", "TRUE"} THEN "true" ELSE s

\* int(s) on a decimal string: [exc, n]
int(s) ==
    IF \E n \in 0..9 : ToString(n) = s
    THEN [exc |-> NoExc, n |-> CHOOSE n \in 0..9 : ToString(n) = s]
    ELSE [exc |-> Exc("ValueError",
                      "invalid literal for int() with base 10: '" \o s \o "'"),
          n |-> 0]

\* the lookup without its condition: the first data source, whatever its id
FirstWithId_Any(items, data_source_id) ==
    IF items = <<>> THEN None ELSE Some(Head(items))

\* next((ds for ds in data_sources if ds.get("id") == data_source_id), None)
RECURSIVE FirstWithId(_, _)
FirstWithId(items, data_source_id) ==
    IF items = <<>> THEN None
    ELSE IF GetOpt(Head(items), "id") = Some(data_source_id)
    THEN Some(Head(items))
    ELSE FirstWithId(Tail(items), data_source_id)

\* point_values[point_id] = value
Store(point_values, point_id, value) ==
    [k \in DOMAIN point_values \cup {point_id} |->
        IF k = point_id THEN value ELSE point_values[k]]

\* the loop "for dp in data_points" from its i-th element on; the next request
\* is the j-th of the invocation: clients[j] sends it and resps[j] answers it
RECURSIVE FetchValues(_, _, _, _, _, _, _)
FetchValues(clients, data_points, i, resps, j, point_values, calls) ==
    IF i > Len(data_points)
    THEN [awaiting |-> FALSE, raised |-> FALSE, pending |-> <<>>,
          point_values |-> point_values, calls |-> calls]
    ELSE LET point_id == GetOpt(data_points[i], "id")
         IN IF ~TruthyInt(point_id)
            THEN FetchValues(clients, data_points, i + 1, resps, j,
                             point_values, calls)
            ELSE IF j > Len(resps)
            THEN [awaiting |-> TRUE, raised |-> FALSE,
                  pending |-> get_point_value(clients[j][1], point_id[1],
                                              Unanswered).requests,
                  point_values |-> point_values, calls |-> calls]
            ELSE LET c == get_point_value(clients[j][1], point_id[1], resps[j])
                 IN IF c.raised
                    THEN [awaiting |-> FALSE, raised |-> TRUE,
                          pending |-> <<>>,
                          point_values |-> point_values,
                          calls |-> Append(calls, c)]
                    ELSE FetchValues(clients, data_points, i + 1, resps, j + 1,
                                     Store(point_values, point_id[1], c.value),
                                     Append(calls, c))

\* the scada_system_overview branch
Overview(clients, arguments, resps) ==
    LET client == clients[1]
        include_alarms ==
            Lower(Get(arguments, "include_alarms", "false")) = "true"
        c1 == get_data_sources(clients[1][1], resps[1])
        c2 == get_data_points(clients[2][1], None, resps[2])
        c3 == get_system_status(clients[3][1], resps[3])
        c4 == get_alarms(clients[4][1], TRUE, resps[4])
    IN IF Len(resps) < 1
       THEN Await("overview-datasources", client, <<>>, <<>>,
                  get_data_sources(clients[1][1], Unanswered).requests)
       ELSE IF c1.raised THEN Done(client, Raise(EscapedFrom(c1)), <<>>, <<c1>>)
       ELSE IF Len(resps) < 2
       THEN Await("overview-datapoints", client, <<>>, <<c1>>,
                  get_data_points(clients[2][1], None, Unanswered).requests)
       ELSE IF c2.raised
       THEN Done(client, Raise(EscapedFrom(c2)), <<>>, <<c1, c2>>)
       ELSE IF Len(resps) < 3
       THEN Await("overview-status", client, <<>>, <<c1, c2>>,
                  get_system_status(clients[3][1], Unanswered).requests)
       ELSE IF c3.raised
       THEN Done(client, Raise(EscapedFrom(c3)), <<>>, <<c1, c2, c3>>)
       ELSE IF PyLen(c1.value).exc # NoExc
       THEN Done(client, Raise(PyLen(c1.value).exc), <<>>, <<c1, c2, c3>>)
       ELSE IF PyLen(c2.value).exc # NoExc
       THEN Done(client, Raise(PyLen(c2.value).exc), <<>>, <<c1, c2, c3>>)
       ELSE IF ~include_alarms
       THEN Done(client,
                 TextResult("SCADA-LTS system overview",
                            "# SCADA-LTS System Overview\n\n## System Status\n",
                            <<c3.value, c1.value, c2.value>>, <<>>),
                 <<>>, <<c1, c2, c3>>)
       ELSE IF Len(resps) < 4
       THEN Await("overview-alarms", client, <<>>, <<c1, c2, c3>>,
                  get_alarms(clients[4][1], TRUE, Unanswered).requests)
       ELSE IF c4.raised
       THEN Done(client, Raise(EscapedFrom(c4)), <<>>, <<c1, c2, c3, c4>>)
       ELSE IF PyLen(c4.value).exc # NoExc
       THEN Done(client, Raise(PyLen(c4.value).exc), <<>>, <<c1, c2, c3, c4>>)
       ELSE Done(client,
                 TextResult("SCADA-LTS system overview",
                            "# SCADA-LTS System Overview\n\n## System Status\n",
                            <<c3.value, c1.value, c2.value, c4.value>>, <<>>),
                 <<>>, <<c1, c2, c3, c4>>)

\* the data_point_analysis branch
Analysis(clients, arguments, resps) ==
    LET client == clients[1]
        parsed == int(arguments.data_source_id)
        data_source_id == parsed.n
        c1 == get_data_sources(clients[1][1], resps[1])
        target_ds == FirstWithId(IterItems(c1.value), data_source_id)
        c2 == get_data_points(clients[2][1], Some(data_source_id), resps[2])
        loop == FetchValues(clients, IterItems(c2.value), 1, resps, 3, <<>>,
                            <<c1, c2>>)
    IN IF "data_source_id" \notin DOMAIN arguments
       THEN Done(client, Raise(KeyError("data_source_id")), <<>>, <<>>)
       ELSE IF parsed.exc # NoExc THEN Done(client, Raise(parsed.exc), <<>>, <<>>)
       ELSE IF Len(resps) < 1
       THEN Await("analysis-datasources", client, <<>>, <<>>,
                  get_data_sources(clients[1][1], Unanswered).requests)
       ELSE IF c1.raised THEN Done(client, Raise(EscapedFrom(c1)), <<>>, <<c1>>)
       ELSE IF IterGetExc(c1.value) # NoExc
       THEN Done(client, Raise(IterGetExc(c1.value)), <<>>, <<c1>>)
       ELSE IF target_ds = None
       THEN Done(client,
                 TextResult("Data source not found",
                            "Data source with ID " \o ToString(data_source_id)
                               \o " not found.",
                            <<>>, <<>>),
                 <<>>, <<c1>>)
       ELSE IF Len(resps) < 2
       THEN Await("analysis-datapoints", client, <<>>, <<c1>>,
                  get_data_points(clients[2][1], Some(data_source_id),
                                  Unanswered).requests)
       ELSE IF c2.raised
       THEN Done(client, Raise(EscapedFrom(c2)), <<>>, <<c1, c2>>)
       ELSE IF IterGetExc(c2.value) # NoExc
       THEN Done(client, Raise(IterGetExc(c2.value)), <<>>, <<c1, c2>>)
       ELSE IF loop.awaiting
       THEN Await("analysis-point-value", client, <<>>, loop.calls,
                  loop.pending)
       ELSE IF loop.raised
       THEN Done(client, Raise(EscapedFrom(loop.calls[Len(loop.calls)])),
                 <<>>, loop.calls)
       ELSE Done(client,
                 TextResult("Analysis of data source "
                               \o ToString(data_source_id),
                            "# Data Source Analysis: "
                               \o Get(target_ds[1], "name", "Unknown"),
                            <<JObj(target_ds[1]), c2.value>>,
                            loop.point_values),
                 <<>>, loop.calls)

\* get_prompt(name, arguments) as far as it has run: clients[1] is the
\* reference scada_client at entry, clients[k] the one its k-th request is
\* sent through, resps the answers that have arrived, in order
get_prompt(clients, name, arguments, resps) ==
    IF clients[1] = None
    THEN Done(clients[1],
              TextResult("SCADA-LTS client not configured", PromptAdvisory,
                         <<>>, <<>>),
              <<>>, <<>>)
    ELSE IF name = "scada_system_overview"
    THEN Overview(clients, arguments, resps)
    ELSE IF name = "data_point_analysis"
    THEN Analysis(clients, arguments, resps)
    ELSE Done(clients[1],
              TextResult("Unknown prompt", "Unknown prompt: " \o name,
                         <<>>, <<>>),
              <<>>, <<>>)

-----------------------------------------------------------------------------
(* The inputs of the model.                                                  *)

ToolNames == CatalogTools \cup {"unknown_tool", "list_tools"}

PromptNames == {"scada_system_overview", "data_point_analysis",
                "unknown_prompt"}

Restrict(d, keys) == [k \in keys |-> d[k]]

\* the arguments objects that carry any subset of the keys of the given ones
ArgumentsOver(full) ==
    UNION {{Restrict(d, keys) : keys \in SUBSET DOMAIN d} : d \in full}

ToolArguments(name) ==
    CASE name = "configure_connection" ->
            ArgumentsOver([base_url : BaseUrls, username : Usernames,
                           password : Passwords])
      [] name = "get_data_points" -> ArgumentsOver([data_source_id : {0, 1}])
      [] name = "get_point_value" -> ArgumentsOver([point_id : {42}])
      [] name = "set_point_value" ->
            ArgumentsOver([point_id : {42}, value : {7}])
      [] name = "get_alarms" -> ArgumentsOver([active_only : BOOLEAN])
      [] name = "acknowledge_alarm" -> ArgumentsOver([alarm_id : {5}])
      [] OTHER -> {<<>>}

PromptArguments(name) ==
    CASE name = "scada_system_overview" ->
            ArgumentsOver([include_alarms : {"True", "false"}])
      [] name = "data_point_analysis" ->
            ArgumentsOver([data_source_id : {"1", "3", "x"}])
      [] OTHER -> {<<>>}

-----------------------------------------------------------------------------
(* The state machine.  The handlers are coroutines and the protocol layer    *)
(* starts the handler of a request without waiting for the handlers of       *)
(* earlier requests, so several invocations can be in flight.  An invocation *)
(* runs without interruption from its start to its first await, and from the *)
(* arrival of an answer to its next await or its end.                        *)
(*                                                                           *)
(* The interleavings are bounded.  At most two invocations are in flight,    *)
(* and at most one of them is not a configure_connection: an invocation      *)
(* other than configure_connection writes nothing that another invocation    *)
(* reads.  The result of an invocation that has ended is taken before any    *)
(* other step.                                                               *)

\* the invocations that can be in flight at a time
Slots == {1, 2}

\* An invocation in flight: what it was called with, the answers it has
\* received, whether the client it has built is the one scada_client still
\* refers to, the await it is suspended at ("" when it has ended) and its
\* result.
Invocation(handler, name, arguments, resps, current, awaiting, res) ==
    [handler |-> handler, name |-> name, arguments |-> arguments,
     resps |-> resps, current |-> current, awaiting |-> awaiting,
     result |-> res]

NoInvocation == Invocation("", "", <<>>, <<>>, FALSE, "", NoResult)

Idle(t) == invocations[t].handler = ""

Suspended(t) == invocations[t].handler # "" /\ invocations[t].awaiting # ""

Ended(t) == invocations[t].handler # "" /\ invocations[t].awaiting = ""

\* no invocation has ended without its result being taken
NoneEnded == \A t \in Slots : ~Ended(t)

\* the slot the next invocation takes
FreeSlots ==
    {t \in Slots : Idle(t) /\ \A s \in Slots : s < t => ~Idle(s)}

\* the invocations in flight are all configure_connection
OnlyConfiguring ==
    \A s \in Slots :
       Idle(s) \/ (invocations[s].handler = "call_tool"
                     /\ invocations[s].name = "configure_connection")

\* "scada_client = ScadaLTSClient(...)" is reached
Assigns(name, arguments) ==
    name = "configure_connection" /\ "base_url" \in DOMAIN arguments

\* what the most recent configure_connection that built a client was given:
\* its base_url, username and password, and the answer to its login request
\* once it has arrived
Configured(arguments, resps) ==
    [base_url |-> arguments.base_url,
     username |-> Get(arguments, "username", ""),
     password |-> Get(arguments, "password", ""),
     login |-> resps]

\* get_prompt after n answers, with scada_client as it is now: the requests
\* before the (n+1)-th have been sent and do not read it any more
ThroughNow(n) == [k \in 1..(n + 1) |-> scada_client]

\* the requests beyond the first n
After(requests, n) == SubSeq(requests, n + 1, Len(requests))

Init ==
    /\ scada_client = None
    /\ invocations = [t \in Slots |-> NoInvocation]
    /\ sent = <<>>
    /\ configured_by = None

\* the protocol layer invokes call_tool, which runs to its await or to its
\* return; configure_connection has assigned scada_client by then
CallTool ==
    \E t \in FreeSlots :
    \E name \in ToolNames :
    \E arguments \in ToolArguments(name) :
       LET out == call_tool(scada_client, name, arguments, <<>>)
       IN /\ NoneEnded
          /\ name = "configure_connection" \/ OnlyConfiguring
          /\ scada_client' = out.scada_client
          /\ invocations' =
                [s \in Slots |->
                    IF s = t
                    THEN Invocation("call_tool", name, arguments, <<>>,
                              Assigns(name, arguments) /\ out.awaiting # "",
                              out.awaiting, out.result)
                    ELSE IF Assigns(name, arguments)
                    THEN [invocations[s] EXCEPT !.current = FALSE]
                    ELSE invocations[s]]
          /\ sent' = out.requests
          /\ configured_by' =
                IF Assigns(name, arguments)
                THEN Some(Configured(arguments, <<>>))
                ELSE configured_by

\* The answer to the request of a suspended call_tool arrives and the handler
\* runs to its return.  It does not read scada_client again: of what
\* call_tool yields here, only the requests, which were sent before the
\* await, depend on the client it is given.  authenticate() stores the token
\* in the client it was called on, which scada_client may no longer refer to.
ResumeCallTool ==
    \E t \in Slots :
       /\ NoneEnded
       /\ Suspended(t)
       /\ invocations[t].handler = "call_tool"
       /\ \E r \in ResponsesFor(invocations[t].awaiting) :
             LET resps == Append(invocations[t].resps, r)
                 out == call_tool(scada_client, invocations[t].name,
                                  invocations[t].arguments, resps)
             IN /\ scada_client' =
                      IF invocations[t].current THEN out.scada_client
                      ELSE scada_client
                /\ invocations' = [invocations EXCEPT ![t].resps = resps,
                                          ![t].current = FALSE,
                                          ![t].awaiting = out.awaiting,
                                          ![t].result = out.result]
                /\ sent' = After(out.requests, Len(resps))
                /\ configured_by' =
                      IF invocations[t].current
                      THEN Some(Configured(invocations[t].arguments, resps))
                      ELSE configured_by

\* the protocol layer invokes get_prompt, which runs to its first await or to
\* its return or raise
GetPrompt ==
    \E t \in FreeSlots :
    \E name \in PromptNames :
    \E arguments \in PromptArguments(name) :
       LET out == get_prompt(ThroughNow(0), name, arguments, <<>>)
       IN /\ NoneEnded
          /\ OnlyConfiguring
          /\ invocations' = [invocations EXCEPT ![t] =
                          Invocation("get_prompt", name, arguments, <<>>, FALSE,
                               out.awaiting, out.result)]
          /\ sent' = out.requests
          /\ UNCHANGED <<scada_client, configured_by>>

\* the answer to the request of a suspended get_prompt arrives and the handler
\* runs to its next await, where it sends its next request through the client
\* scada_client refers to by now, or to its return or raise
ResumeGetPrompt ==
    \E t \in Slots :
       /\ NoneEnded
       /\ Suspended(t)
       /\ invocations[t].handler = "get_prompt"
       /\ \E r \in ResponsesFor(invocations[t].awaiting) :
             LET resps == Append(invocations[t].resps, r)
                 out == get_prompt(ThroughNow(Len(resps)), invocations[t].name,
                                   invocations[t].arguments, resps)
             IN /\ invocations' = [invocations EXCEPT ![t].resps = resps,
                                          ![t].awaiting = out.awaiting,
                                          ![t].result = out.result]
                /\ sent' = After(out.requests, Len(resps))
       /\ UNCHANGED <<scada_client, configured_by>>

\* the protocol layer takes the result (or the exception) of an invocation
\* that has ended
Deliver ==
    \E t \in Slots :
       /\ Ended(t)
       /\ invocations' = [invocations EXCEPT ![t] = NoInvocation]
       /\ sent' = <<>>
       /\ UNCHANGED <<scada_client, configured_by>>

Next == CallTool \/ ResumeCallTool \/ GetPrompt \/ ResumeGetPrompt \/ Deliver

Spec == Init /\ [][Next]_vars

-----------------------------------------------------------------------------
(* Properties.  Nothing runs between the end of an invocation and the taking *)
(* of its result, so in a state where an invocation that ended without an    *)
(* await has not been taken, scada_client is what that invocation found at   *)
(* entry; and sent holds the requests of the step that led to the state.     *)

\* the invocation has ended and its result has not been taken
Responded(t, handler) == Ended(t) /\ invocations[t].handler = handler

\* The invocation as far as it has run.  Of the requests it has sent, the
\* method, path and body are those sent; the base URL and the headers are
\* rendered with the client scada_client refers to now.
Ran(t) ==
    IF invocations[t].handler = "call_tool"
    THEN call_tool(scada_client, invocations[t].name, invocations[t].arguments,
                   invocations[t].resps)
    ELSE get_prompt(ThroughNow(Len(invocations[t].resps)), invocations[t].name,
                    invocations[t].arguments, invocations[t].resps)

\* the capability calls of the invocation that have returned
CallsOf(t) == IF Idle(t) THEN <<>> ELSE Ran(t).calls

HasAuthorization(req) == "Authorization" \in DOMAIN req.headers

\* the "required" list of each tool of the catalog, in the order call_tool
\* reads the keys
RequiredKeys(name) ==
    CASE name = "get_point_value" -> <<"point_id">>
      [] name = "set_point_value" -> <<"point_id", "value">>
      [] name = "acknowledge_alarm" -> <<"alarm_id">>
      [] name = "configure_connection" -> <<"base_url">>
      [] OTHER -> <<>>

MissingKeys(name, arguments) ==
    {i \in 1..Len(RequiredKeys(name)) :
        RequiredKeys(name)[i] \notin DOMAIN arguments}

FirstMissingKey(name, arguments) ==
    RequiredKeys(name)[CHOOSE i \in MissingKeys(name, arguments) :
                          \A j \in MissingKeys(name, arguments) : i <= j]

(* C1: while no client has been assigned, call_tool with a name other than   *)
(* configure_connection and get_prompt with any name return the fixed        *)
(* advisory text as a normal result and send no HTTP request.                *)
C1_AdvisoryWhileUnconfigured ==
    \A t \in Slots :
       /\ (Responded(t, "call_tool") /\ scada_client = None
             /\ invocations[t].name # "configure_connection")
            => /\ invocations[t].result.outcome = "return"
               /\ invocations[t].result.text = ToolAdvisory
               /\ invocations[t].resps = <<>>
               /\ sent = <<>>
       /\ (Responded(t, "get_prompt") /\ scada_client = None)
            => /\ invocations[t].result.outcome = "return"
               /\ invocations[t].result.text = PromptAdvisory
               /\ invocations[t].resps = <<>>
               /\ sent = <<>>

C1_Witness ==
    \E t \in Slots :
       /\ Responded(t, "call_tool")
       /\ scada_client = None
       /\ invocations[t].name = "unknown_tool"
       /\ invocations[t].result.text = ToolAdvisory

(* C2: call_tool never raises: every invocation returns a text result, and   *)
(* an invocation that reads a required key its arguments lack returns the    *)
(* text that describes the KeyError.                                         *)
C2_CallToolNeverRaises ==
    \A t \in Slots :
       LET name == invocations[t].name
           arguments == invocations[t].arguments
       IN Responded(t, "call_tool") =>
             /\ invocations[t].result.outcome = "return"
             /\ (/\ MissingKeys(name, arguments) # {}
                 /\ (scada_client # None \/ name = "configure_connection"))
                  => invocations[t].result.text =
                        "Error executing " \o name \o ": '"
                           \o FirstMissingKey(name, arguments) \o "'"

C2_Witness ==
    \E t \in Slots :
       /\ Responded(t, "call_tool")
       /\ scada_client # None
       /\ invocations[t].name = "set_point_value"
       /\ DOMAIN invocations[t].arguments = {"point_id"}
       /\ invocations[t].result.text = "Error executing set_point_value: 'value'"

(* C3: get_prompt never raises: every invocation returns a text report.      *)
C3_GetPromptNeverRaises ==
    \A t \in Slots :
       Responded(t, "get_prompt") => invocations[t].result.outcome = "return"

\* the configuration in force has no credentials
GuestConfigured ==
    /\ configured_by # None
    /\ (configured_by[1].username = "" \/ configured_by[1].password = "")

(* C4: configure_connection with a base_url and an absent or empty username  *)
(* or password reports "successful" and sends no request, and until the next *)
(* configure_connection no request carries an Authorization header.          *)
C4_GuestMode ==
    /\ \A t \in Slots :
          (Responded(t, "call_tool")
             /\ invocations[t].name = "configure_connection"
             /\ "base_url" \in DOMAIN invocations[t].arguments
             /\ (Get(invocations[t].arguments, "username", "") = ""
                   \/ Get(invocations[t].arguments, "password", "") = ""))
            => /\ invocations[t].result.outcome = "return"
               /\ invocations[t].result.text =
                     "Connection configured for "
                        \o UrlText(invocations[t].arguments.base_url)
                        \o ". Authentication: successful"
               /\ invocations[t].resps = <<>>
               /\ sent = <<>>
    /\ GuestConfigured
         => \A i \in 1..Len(sent) : ~HasAuthorization(sent[i])

C4_Witness ==
    /\ GuestConfigured
    /\ configured_by[1].username = "u"
    /\ \E t \in Slots :
          /\ Suspended(t)
          /\ invocations[t].handler = "get_prompt"
          /\ Len(invocations[t].resps) = 2
    /\ Len(sent) = 1
    /\ ~HasAuthorization(sent[1])

\* the configuration in force had credentials and its login got status 200
LoginGot200 ==
    /\ configured_by # None
    /\ configured_by[1].username # ""
    /\ configured_by[1].password # ""
    /\ configured_by[1].login # <<>>
    /\ configured_by[1].login[1].transport = "ok"
    /\ configured_by[1].login[1].status_code = 200

\* ... and the body of that answer is a JSON object with a non-empty token
LoginGotToken ==
    /\ LoginGot200
    /\ configured_by[1].login[1].body.form = "object"
    /\ "token" \in DOMAIN configured_by[1].login[1].body.obj
    /\ configured_by[1].login[1].body.obj.token # ""

(* C5 as stated: after a configure_connection with credentials whose login   *)
(* receives status 200 a session token is set, and every request sent        *)
(* afterwards carries Authorization: Bearer <token>.                         *)
C5_TokenAfterAny200 ==
    LoginGot200 =>
        /\ scada_client # None
        /\ scada_client[1].session_token # None
        /\ \A i \in 1..Len(sent) :
              /\ HasAuthorization(sent[i])
              /\ sent[i].headers["Authorization"] =
                    "Bearer " \o scada_client[1].session_token[1]

(* C5, amended: once the login of a configure_connection with credentials    *)
(* has received status 200 with a JSON object whose token field is a         *)
(* non-empty string, the session token is that string and every request sent *)
(* afterwards, until the next configure_connection, carries                  *)
(* Authorization: Bearer <token>.                                            *)
C5_BearerAfterLogin ==
    LoginGotToken =>
        /\ scada_client # None
        /\ scada_client[1].session_token =
              Some(configured_by[1].login[1].body.obj.token)
        /\ \A i \in 1..Len(sent) :
              /\ HasAuthorization(sent[i])
              /\ sent[i].headers["Authorization"] =
                    "Bearer " \o configured_by[1].login[1].body.obj.token

C5_Witness ==
    /\ LoginGotToken
    /\ configured_by[1].login[1].body.obj.token = "tok2"
    /\ \E t \in Slots :
          /\ Suspended(t)
          /\ invocations[t].handler = "get_prompt"
          /\ invocations[t].name = "data_point_analysis"
          /\ Len(invocations[t].resps) = 2
    /\ Len(sent) = 1
    /\ sent[1].headers["Authorization"] = "Bearer tok2"

\* the paths of the REST routes, for the ids of the model
ApiPaths ==
    {"/api/datasources", "/api/datapoints", "/api/alarms",
     "/api/alarms?active=true", "/api/system/status"}
      \cup {"/api/datapoints?dataSourceId=" \o ToString(n) : n \in 0..9}
      \cup {"/api/point-values/" \o ToString(n) \o "/latest" :
               n \in 0..9 \cup {42}}
      \cup {"/api/point-values/" \o ToString(n) \o "/set" :
               n \in 0..9 \cup {42}}
      \cup {"/api/alarms/" \o ToString(n) \o "/ack" : n \in 0..9}

\* the token the login of a configuration has yielded
TokenOf(config) ==
    IF /\ config.username # ""
       /\ config.password # ""
       /\ config.login # <<>>
       /\ config.login[1].transport = "ok"
       /\ config.login[1].status_code = 200
       /\ config.login[1].body.form = "object"
       /\ "token" \in DOMAIN config.login[1].body.obj
    THEN Some(config.login[1].body.obj.token)
    ELSE None

\* the request is the login request of the configuration
IsLoginOf(req, config) ==
    /\ req.method = "POST"
    /\ req.url = config.base_url.stem \o "/api/auth/login"
    /\ req.json = [username |-> config.username,
                   password |-> config.password]
    /\ ~HasAuthorization(req)

\* the request goes to an API route under the base URL of the configuration
\* and carries an Authorization header only for the token its login yielded
IsCapabilityOf(req, config) ==
    /\ req.url \in {config.base_url.stem \o path : path \in ApiPaths}
    /\ IF TruthyStr(TokenOf(config))
       THEN /\ HasAuthorization(req)
            /\ req.headers["Authorization"] =
                  "Bearer " \o TokenOf(config)[1]
       ELSE ~HasAuthorization(req)

(* C6: a configure_connection that supplies base_url replaces the whole      *)
(* client: from its assignment on the client holds the base URL and          *)
(* credentials of that invocation and only the token its own login has       *)
(* yielded, and every request goes to that base URL, with those credentials, *)
(* and carries an Authorization header only for that token.                  *)
C6_ReconfigureReplacesClient ==
    configured_by # None =>
        LET config == configured_by[1]
        IN /\ scada_client # None
           /\ scada_client[1].base_url = config.base_url.stem
           /\ scada_client[1].username = config.username
           /\ scada_client[1].password = config.password
           /\ scada_client[1].session_token = TokenOf(config)
           /\ \A i \in 1..Len(sent) :
                 IsLoginOf(sent[i], config) \/ IsCapabilityOf(sent[i], config)

\* a data_point_analysis in flight sends its data-points request to http://b
\* without Authorization, the login of the configure_connection for http://b
\* having failed
C6_Witness ==
    /\ configured_by # None
    /\ configured_by[1].base_url.stem = "http://b"
    /\ configured_by[1].login # <<>>
    /\ configured_by[1].login[1].status_code = 500
    /\ scada_client[1].session_token = None
    /\ \E t \in Slots :
          /\ Suspended(t)
          /\ invocations[t].handler = "get_prompt"
          /\ Len(invocations[t].resps) >= 1
    /\ Len(sent) = 1
    /\ sent[1].url = "http://b/api/datapoints?dataSourceId=1"
    /\ ~HasAuthorization(sent[1])

\* the step is one of a configure_connection that supplied base_url
ConfiguringStep ==
    \E t \in Slots :
       /\ invocations'[t] # invocations[t]
       /\ invocations'[t].handler = "call_tool"
       /\ invocations'[t].name = "configure_connection"
       /\ "base_url" \in DOMAIN invocations'[t].arguments

(* C7: only a configure_connection that supplies base_url changes the client *)
(* reference (its base URL, credentials and token); every other invocation,  *)
(* a configure_connection without base_url included, leaves it as it was;    *)
(* and a configured adapter never becomes unconfigured.                      *)
C7_OnlyConfigureMutates ==
    [][/\ ~ConfiguringStep => scada_client' = scada_client
       /\ scada_client # None => scada_client' # None]_vars

C7_Witness ==
    \E t \in Slots :
       /\ Responded(t, "call_tool")
       /\ invocations[t].name = "configure_connection"
       /\ "base_url" \notin DOMAIN invocations[t].arguments
       /\ scada_client # None
       /\ TruthyStr(scada_client[1].session_token)

(* C8 as stated: call_tool with a name outside the catalog returns           *)
(* "Unknown tool: {name}" in whatever state the adapter is in.               *)
C8_UnknownToolInAnyState ==
    \A t \in Slots :
       (Responded(t, "call_tool") /\ invocations[t].name \notin CatalogTools)
          => /\ invocations[t].result.outcome = "return"
             /\ invocations[t].result.text = "Unknown tool: " \o invocations[t].name

(* C8, amended: call_tool with a name outside the catalog returns            *)
(* "Unknown tool: {name}" as a normal text result when a client is           *)
(* configured, and the advisory text when none is.                           *)
C8_UnknownToolWhenConfigured ==
    \A t \in Slots :
       (Responded(t, "call_tool") /\ invocations[t].name \notin CatalogTools)
          => /\ invocations[t].result.outcome = "return"
             /\ invocations[t].result.text =
                   IF scada_client = None THEN ToolAdvisory
                   ELSE "Unknown tool: " \o invocations[t].name
             /\ invocations[t].resps = <<>>
             /\ sent = <<>>

C8_Witness ==
    \E t \in Slots :
       /\ Responded(t, "call_tool")
       /\ invocations[t].name = "unknown_tool"
       /\ invocations[t].arguments = <<>>
       /\ scada_client # None
       /\ invocations[t].result.text = "Unknown tool: unknown_tool"

\* the exchange got status 200 and a body that parses
Parsed200(resp) ==
    resp.transport = "ok" /\ resp.status_code = 200
       /\ resp.body.form # "malformed"

(* C9: every capability call sends exactly one request and does not raise;   *)
(* it returns the parsed payload on status 200 (true for set_point_value and *)
(* acknowledge_alarm) and otherwise its sentinel: an empty list, an absent   *)
(* value, false, or a status object "unknown" (non-200) or "error"           *)
(* (exception).                                                              *)
C9_CapabilitySentinels ==
    \A t \in Slots :
    \A i \in 1..Len(CallsOf(t)) :
        LET c == CallsOf(t)[i]
            resp == c.response
        IN /\ Len(c.requests) = 1
           /\ Len(sent) <= 1
           /\ resp = invocations[t].resps[i]
           /\ ~c.raised
           /\ c.method \in {"get_data_sources", "get_data_points",
                            "get_alarms"}
                => c.value = IF Parsed200(resp) THEN resp.body ELSE JList(<<>>)
           /\ c.method = "get_point_value"
                => c.value = IF Parsed200(resp) THEN resp.body ELSE JNull
           /\ c.method \in {"set_point_value", "acknowledge_alarm"}
                => c.value = IF resp.transport = "ok" /\ resp.status_code = 200
                             THEN JTrue ELSE JFalse
           /\ c.method = "get_system_status"
                => IF Parsed200(resp) THEN c.value = resp.body
                   ELSE /\ c.value.form = "object"
                        /\ DOMAIN c.value.obj = {"status", "error"}
                        /\ c.value.obj.status =
                              IF resp.transport = "ok"
                                 /\ resp.status_code # 200
                              THEN "unknown" ELSE "error"

C9_Witness ==
    \E t \in Slots :
       /\ Responded(t, "get_prompt")
       /\ invocations[t].name = "scada_system_overview"
       /\ Len(CallsOf(t)) = 4
       /\ CallsOf(t)[1].response.transport = "error"
       /\ CallsOf(t)[1].value = JList(<<>>)
       /\ CallsOf(t)[3].response.status_code = 503
       /\ CallsOf(t)[3].value.obj.status = "unknown"

\* the data-source list the remote client hands to the prompt is a list
SourcesListed(resp) ==
    ~Parsed200(resp) \/ resp.body.form = "list"

SourcesOf(resp) == IF Parsed200(resp) THEN resp.body.items ELSE <<>>

(* C10: in the configured state, data_point_analysis with a data_source_id   *)
(* that is the id of no entry of the data-source list (the empty list of a   *)
(* failed request included) returns the "not found" report, and the          *)
(* data-sources request is the only request of the invocation.               *)
C10_NotFoundFetchesNothing ==
    \A t \in Slots :
       (/\ Responded(t, "get_prompt")
        /\ invocations[t].name = "data_point_analysis"
        /\ scada_client # None
        /\ "data_source_id" \in DOMAIN invocations[t].arguments
        /\ \E n \in 0..9 : ToString(n) = invocations[t].arguments.data_source_id
        /\ invocations[t].resps # <<>>
        /\ SourcesListed(invocations[t].resps[1])
        /\ LET n == CHOOSE n \in 0..9 :
                       ToString(n) = invocations[t].arguments.data_source_id
               sources == SourcesOf(invocations[t].resps[1])
           IN \A i \in 1..Len(sources) :
                 "id" \notin DOMAIN sources[i] \/ sources[i].id # n)
         => /\ invocations[t].result.outcome = "return"
            /\ invocations[t].result.description = "Data source not found"
            /\ invocations[t].result.text =
                  "Data source with ID " \o invocations[t].arguments.data_source_id
                     \o " not found."
            /\ Len(invocations[t].resps) = 1
            /\ sent = <<>>
            /\ Len(Ran(t).requests) = 1
            /\ Ran(t).requests[1].method = "GET"
            /\ Ran(t).requests[1].url =
                  scada_client[1].base_url \o "/api/datasources"
            /\ Len(CallsOf(t)) = 1
            /\ CallsOf(t)[1].method = "get_data_sources"

C10_Witness ==
    \E t \in Slots :
       /\ Responded(t, "get_prompt")
       /\ invocations[t].name = "data_point_analysis"
       /\ invocations[t].arguments = [data_source_id |-> "3"]
       /\ invocations[t].resps = <<Http(200, JList(<<[id |-> 2]>>))>>
       /\ invocations[t].result.description = "Data source not found"

\* the invocation is a data_point_analysis that found its data source and
\* returned its report
AnalysisReported(t) ==
    /\ Responded(t, "get_prompt")
    /\ invocations[t].name = "data_point_analysis"
    /\ scada_client # None
    /\ invocations[t].result.outcome = "return"
    /\ invocations[t].result.description # "Data source not found"
    /\ Len(CallsOf(t)) >= 2
    /\ CallsOf(t)[2].method = "get_data_points"
    /\ CallsOf(t)[2].value.form = "list"

\* the data points the report is about
ReportedPoints(t) == CallsOf(t)[2].value.items

HasId(dp) == "id" \in DOMAIN dp

\* id is a point id the loop is to fetch
FetchedId(dp) == HasId(dp) /\ dp.id # 0

\* the value a point-value exchange yields: the payload, or absent
ValueOf(resp) == IF Parsed200(resp) THEN resp.body ELSE JNull

\* After the data-sources and the data-points request, one point-value
\* request per element of points, in order, each sent when the answer to the
\* one before has arrived, and a mapping with exactly the ids of points, each
\* with the value of the last exchange for that id.
FetchedInOrder(t, points) ==
    /\ CallsOf(t)[1].method = "get_data_sources"
    /\ Len(CallsOf(t)) = 2 + Len(points)
    /\ Len(invocations[t].resps) = 2 + Len(points)
    /\ Len(Ran(t).requests) = 2 + Len(points)
    /\ \A k \in 1..Len(points) :
          /\ CallsOf(t)[2 + k].method = "get_point_value"
          /\ Ran(t).requests[2 + k].method = "GET"
          /\ Ran(t).requests[2 + k].url =
                scada_client[1].base_url \o "/api/point-values/"
                   \o ToString(points[k].id) \o "/latest"
    /\ DOMAIN invocations[t].result.point_values =
          {points[k].id : k \in 1..Len(points)}
    /\ \A k \in 1..Len(points) :
          (\A j \in (k + 1)..Len(points) : points[j].id # points[k].id)
             => invocations[t].result.point_values[points[k].id] =
                   ValueOf(invocations[t].resps[2 + k])

(* C11 as stated: for a data source that is found, the value of every data   *)
(* point with a present id is fetched, one request at a time in list order   *)
(* after the data-points request; the mapping has exactly one entry for      *)
(* every point id present in the list (the value, or absent when the fetch   *)
(* failed), and no request is made for a point without an id.                *)
C11_ValueForEveryPresentId ==
    \A t \in Slots :
       AnalysisReported(t)
          => FetchedInOrder(t, SelectSeq(ReportedPoints(t), HasId))

\* C11 for the ids the loop does fetch: the same, for the points whose id is
\* present and not 0
C11_ValueForEveryNonZeroId ==
    \A t \in Slots :
       AnalysisReported(t)
          => FetchedInOrder(t, SelectSeq(ReportedPoints(t), FetchedId))

C11_NonZeroWitness ==
    \E t \in Slots :
       /\ AnalysisReported(t)
       /\ ReportedPoints(t) = <<[id |-> 2]>>
       /\ Len(invocations[t].resps) = 3
       /\ invocations[t].result.point_values[2] = JNull

====
